---- MODULE Spec2Model ----
(***************************************************************************)
(* A model of the MNQ trading bot: the risk manager, the 30 point momentum *)
(* strategy, the order manager and the coordinator (candle aggregation,   *)
(* signal execution, market-data dispatch).                                *)
(*                                                                         *)
(* Prices are whole index points and money is whole dollars; the only     *)
(* fractional factor of the code, $0.50 per point, is applied by scaling   *)
(* both sides of its comparison by two.                                    *)
(***************************************************************************)
EXTENDS Integers, Sequences, FiniteSets, TLC

VARIABLES
    today,            \* calendar day of datetime.now()
    config,           \* RiskManager.config (RiskConfig)
    risk,             \* RiskManager session state
    riskCall,         \* the last RiskManager call: its arguments, the state before it, its result
    candles,          \* Momentum30pt.candles
    current_signal,   \* Momentum30pt.current_signal
    signalOut,        \* what the last on_candle_close returned
    pending_orders,   \* OrderManager.pending_orders: orderId -> Order
    brokerOrders,     \* the broker's order book: orderId -> order status
    flat,             \* the running flatten_all call
    live,             \* the running _live_trade call
    paper_mode,       \* MNQTradingBot.paper_mode
    current_candle,   \* MNQTradingBot.current_candle
    last_signal,      \* MNQTradingBot.last_signal
    trades_today,     \* MNQTradingBot.trades_today
    paper_log,        \* the records of paper_trades.log
    quotes,           \* MarketDataClient.quotes: symbol -> last price
    positions,        \* MarketDataClient.positions: symbol -> net quantity
    cbTask,           \* the _candle_builder task: sleeping, or ended by an exception
    clock,            \* datetime.now(), in candle intervals
    lastExec,         \* the last _execute_signal call: the tracked quantity it ran under, its outcome
    auth,             \* TradovateAuth: the token fields
    minutes,          \* datetime.now(), in minutes since the bot started
    issued,           \* the tokens the broker has issued so far
    renewTask,        \* the auto_renew task: where it waits, and its last renew_token call
    lastRead,         \* the last order request's reading of the session
    connected,        \* MarketDataClient.connected
    lastDrop,         \* the last frame the listener dropped, and the state it found
    ws,               \* MarketDataClient.ws: none, an open connection, a closed one
    running,          \* MNQTradingBot.running
    stopCalls,        \* the stop() calls: where each one waits, what its flatten_all listed
    mainTask          \* main(): awaiting start(), or returned

riskVars == <<today, config, risk, riskCall>>
stratVars == <<candles, current_signal, signalOut>>
orderVars == <<pending_orders, brokerOrders, flat>>
botVars == <<paper_mode, current_candle, last_signal, trades_today, paper_log,
             quotes, positions, cbTask, clock, lastExec>>
authVars == <<auth, minutes, issued, renewTask, lastRead>>
streamVars == <<connected, lastDrop, ws>>
stopVars == <<running, stopCalls, mainTask>>
notRisk == <<stratVars, orderVars, live, botVars, authVars, streamVars, stopVars>>
notOrders == <<riskVars, stratVars, live, botVars, authVars, streamVars, stopVars>>
notLive == <<today, config, riskCall, stratVars, flat, paper_mode, current_candle,
             last_signal, paper_log, quotes, positions, cbTask, clock, lastExec, authVars,
             streamVars, stopVars>>
notAuth == <<riskVars, stratVars, orderVars, live, botVars, streamVars, stopVars>>
vars == <<today, config, risk, riskCall, candles, current_signal, signalOut,
          pending_orders, brokerOrders, flat, live,
          paper_mode, current_candle, last_signal, trades_today, paper_log,
          quotes, positions, cbTask, clock, lastExec,
          auth, minutes, issued, renewTask, lastRead, connected, lastDrop, ws,
          running, stopCalls, mainTask>>

None == "None"

Abs(x) == IF x < 0 THEN -x ELSE x

Max(a, b) == IF a >= b THEN a ELSE b

Min(a, b) == IF a <= b THEN a ELSE b

(***************************************************************************)
(* core/risk_manager.py                                                    *)
(***************************************************************************)

\* Bounds of the risk manager's harness.
MaxDay == 2
MaxTradesBound == 11
MaxPnlBound == 600

\* RiskConfig as main.py builds it, as the module's own example builds it,
\* and one that tolerates no losing day.
BotConfig ==
    [max_daily_loss |-> -500, max_position_size |-> 2,
     max_trades_per_day |-> 10, r_per_trade |-> 100]

ExampleConfig ==
    [max_daily_loss |-> -300, max_position_size |-> 2,
     max_trades_per_day |-> 10, r_per_trade |-> 50]

ZeroLossConfig ==
    [max_daily_loss |-> 0, max_position_size |-> 2,
     max_trades_per_day |-> 10, r_per_trade |-> 100]

RiskConfigs == {BotConfig, ExampleConfig, ZeroLossConfig}

\* RiskManager.__init__
RiskManagerInit(day) ==
    [daily_pnl |-> 0, trades_today |-> 0, daily_start |-> day,
     kill_switch_triggered |-> FALSE]

Directions == {"Buy", "Sell"}

Sizes == 1..3

\* (entry_price, stop_price) pairs handed to check_entry: 30, 100 and 200
\* points of risk, on either side of the entry.
EntryStops ==
    {<<20500, 20470>>, <<20500, 20400>>, <<20500, 20300>>, <<20500, 20700>>}

PnlAmounts == {-150, 150}

Verdict(allowed, reason, rm) == [allowed |-> allowed, reason |-> reason, rm |-> rm]

\* reward_per_contract < r_per_trade, with reward_per_contract = risk * 0.50
PoorRR(cfg, entry_price, stop_price) ==
    Abs(entry_price - stop_price) * 50 < cfg.r_per_trade * 100

\* check_entry without its kill-switch test.
CheckEntry_NoKillSwitch(rm, cfg, direction, size, entry_price, stop_price) ==
    IF rm.daily_pnl <= cfg.max_daily_loss
    THEN Verdict(FALSE, "DAILY_LOSS hit", [rm EXCEPT !.kill_switch_triggered = TRUE])
    ELSE IF rm.trades_today >= cfg.max_trades_per_day
    THEN Verdict(FALSE, "MAX_TRADES reached", rm)
    ELSE IF size > cfg.max_position_size
    THEN Verdict(FALSE, "MAX_SIZE exceeded", rm)
    ELSE IF PoorRR(cfg, entry_price, stop_price)
    THEN Verdict(FALSE, "Poor R:R", rm)
    ELSE Verdict(TRUE, "OK", rm)

\* check_entry testing the size before the trade count.
CheckEntry_SizeFirst(rm, cfg, direction, size, entry_price, stop_price) ==
    IF rm.kill_switch_triggered
    THEN Verdict(FALSE, "KILL_SWITCH active", rm)
    ELSE IF rm.daily_pnl <= cfg.max_daily_loss
    THEN Verdict(FALSE, "DAILY_LOSS hit", [rm EXCEPT !.kill_switch_triggered = TRUE])
    ELSE IF size > cfg.max_position_size
    THEN Verdict(FALSE, "MAX_SIZE exceeded", rm)
    ELSE IF rm.trades_today >= cfg.max_trades_per_day
    THEN Verdict(FALSE, "MAX_TRADES reached", rm)
    ELSE IF PoorRR(cfg, entry_price, stop_price)
    THEN Verdict(FALSE, "Poor R:R", rm)
    ELSE Verdict(TRUE, "OK", rm)

\* check_entry without its limit on the trades of a day.
CheckEntry_NoTradeLimit(rm, cfg, direction, size, entry_price, stop_price) ==
    IF rm.kill_switch_triggered
    THEN Verdict(FALSE, "KILL_SWITCH active", rm)
    ELSE IF rm.daily_pnl <= cfg.max_daily_loss
    THEN Verdict(FALSE, "DAILY_LOSS hit", [rm EXCEPT !.kill_switch_triggered = TRUE])
    ELSE IF size > cfg.max_position_size
    THEN Verdict(FALSE, "MAX_SIZE exceeded", rm)
    ELSE IF PoorRR(cfg, entry_price, stop_price)
    THEN Verdict(FALSE, "Poor R:R", rm)
    ELSE Verdict(TRUE, "OK", rm)

\* RiskManager.check_entry: (allowed, reason) and the manager's state after it.
CheckEntry(rm, cfg, direction, size, entry_price, stop_price) ==
    IF rm.kill_switch_triggered
    THEN Verdict(FALSE, "KILL_SWITCH active", rm)
    ELSE IF rm.daily_pnl <= cfg.max_daily_loss
    THEN Verdict(FALSE, "DAILY_LOSS hit", [rm EXCEPT !.kill_switch_triggered = TRUE])
    ELSE IF rm.trades_today >= cfg.max_trades_per_day
    THEN Verdict(FALSE, "MAX_TRADES reached", rm)
    ELSE IF size > cfg.max_position_size
    THEN Verdict(FALSE, "MAX_SIZE exceeded", rm)
    ELSE IF PoorRR(cfg, entry_price, stop_price)
    THEN Verdict(FALSE, "Poor R:R", rm)
    ELSE Verdict(TRUE, "OK", rm)

\* update_pnl tripping only below the limit, not at it.
UpdatePnl_StrictLimit(rm, cfg, realized_pnl) ==
    LET pnl == rm.daily_pnl + realized_pnl
    IN  [rm EXCEPT !.daily_pnl = pnl,
                   !.kill_switch_triggered = IF pnl < cfg.max_daily_loss THEN TRUE ELSE @]

\* RiskManager.update_pnl
UpdatePnl(rm, cfg, realized_pnl) ==
    LET pnl == rm.daily_pnl + realized_pnl
    IN  [rm EXCEPT !.daily_pnl = pnl,
                   !.kill_switch_triggered = IF pnl <= cfg.max_daily_loss THEN TRUE ELSE @]

\* RiskManager.record_trade
RecordTrade(rm) == [rm EXCEPT !.trades_today = @ + 1]

\* reset_day without its date test.
ResetDay_Always(rm, day) ==
    [daily_pnl |-> 0, trades_today |-> 0, daily_start |-> day,
     kill_switch_triggered |-> FALSE]

\* reset_day clearing the session without moving daily_start.
ResetDay_KeepsStart(rm, day) ==
    IF day > rm.daily_start
    THEN [daily_pnl |-> 0, trades_today |-> 0, daily_start |-> rm.daily_start,
          kill_switch_triggered |-> FALSE]
    ELSE rm

\* RiskManager.reset_day
ResetDay(rm, day) ==
    IF day > rm.daily_start
    THEN [daily_pnl |-> 0, trades_today |-> 0, daily_start |-> day,
          kill_switch_triggered |-> FALSE]
    ELSE rm

NoRiskCall ==
    [op |-> "none", pre |-> RiskManagerInit(0), size |-> 0, entry_price |-> 0,
     stop_price |-> 0, realized_pnl |-> 0, allowed |-> FALSE, reason |-> None]

RiskCall(op, pre) == [NoRiskCall EXCEPT !.op = op, !.pre = pre]

RmCheckEntry ==
    \E direction \in Directions, size \in Sizes, es \in EntryStops :
        LET v == CheckEntry(risk, config, direction, size, es[1], es[2])
        IN  /\ risk' = v.rm
            /\ riskCall' = [op |-> "check_entry", pre |-> risk, size |-> size,
                            entry_price |-> es[1], stop_price |-> es[2],
                            realized_pnl |-> 0,
                            allowed |-> v.allowed, reason |-> v.reason]
            /\ UNCHANGED <<today, config, notRisk>>

RmUpdatePnl ==
    \E realized_pnl \in PnlAmounts :
        /\ Abs(risk.daily_pnl + realized_pnl) <= MaxPnlBound
        /\ risk' = UpdatePnl(risk, config, realized_pnl)
        /\ riskCall' = [RiskCall("update_pnl", risk) EXCEPT !.realized_pnl = realized_pnl]
        /\ UNCHANGED <<today, config, notRisk>>

RmRecordTrade ==
    /\ risk.trades_today < MaxTradesBound
    /\ risk' = RecordTrade(risk)
    /\ riskCall' = RiskCall("record_trade", risk)
    /\ UNCHANGED <<today, config, notRisk>>

RmResetDay ==
    /\ risk' = ResetDay(risk, today)
    /\ riskCall' = RiskCall("reset_day", risk)
    /\ UNCHANGED <<today, config, notRisk>>

\* Midnight passes.
DayPasses ==
    /\ today < MaxDay
    /\ today' = today + 1
    /\ UNCHANGED <<config, risk, riskCall, notRisk>>

(***************************************************************************)
(* strategies/momentum_30pt.py                                             *)
(***************************************************************************)

\* Bound of the strategy's history.
MaxCandles == 3

\* Momentum30pt.trigger_threshold
trigger_threshold == 30

Candle(open, high, low, close, volume, timestamp) ==
    [open |-> open, high |-> high, low |-> low, close |-> close,
     volume |-> volume, timestamp |-> timestamp]

\* Closes 30, 40 and 10 points apart.
CandlePrices == {20505, 20515, 20545}

\* The candles handed to on_candle_close at time t.
CandleInputs(t) ==
    {Candle(o, h, l, c, 1000, t) :
        <<o, h, l, c>> \in {q \in CandlePrices \X CandlePrices \X CandlePrices \X CandlePrices :
                               /\ q[3] <= q[1] /\ q[1] <= q[2]
                               /\ q[3] <= q[4] /\ q[4] <= q[2]}}

\* An optional value is a sequence of at most one element; <<>> is None.
NoSignal == <<>>

SignalOf(direction, stop, breakout_candle, prior_candle, move) ==
    [direction |-> direction,
     entry_price |-> breakout_candle.close,
     stop_price |-> stop,
     breakout_candle |-> breakout_candle,
     prior_candle |-> prior_candle,
     move_points |-> Abs(move),
     risk_points |-> Abs(breakout_candle.close - stop),
     timestamp |-> breakout_candle.timestamp]

\* on_candle_close requiring a move beyond the threshold.
OnCandleClose_Strict(cs, candle) ==
    LET all == Append(cs, candle)
    IN  IF Len(all) < 2
        THEN [candles |-> all, signal |-> NoSignal]
        ELSE LET prior_candle == all[Len(all) - 1]
                 move == candle.close - prior_candle.close
                 direction == IF move > 0 THEN "Buy" ELSE "Sell"
                 stop == IF direction = "Buy" THEN candle.low ELSE candle.high
             IN  IF Abs(move) > trigger_threshold
                 THEN [candles |-> all,
                       signal |-> <<SignalOf(direction, stop, candle, prior_candle, move)>>]
                 ELSE [candles |-> all, signal |-> NoSignal]

\* on_candle_close stopping at the candle's low in both directions.
OnCandleClose_StopAtLow(cs, candle) ==
    LET all == Append(cs, candle)
    IN  IF Len(all) < 2
        THEN [candles |-> all, signal |-> NoSignal]
        ELSE LET prior_candle == all[Len(all) - 1]
                 move == candle.close - prior_candle.close
                 direction == IF move > 0 THEN "Buy" ELSE "Sell"
             IN  IF Abs(move) >= trigger_threshold
                 THEN [candles |-> all,
                       signal |-> <<SignalOf(direction, candle.low, candle, prior_candle, move)>>]
                 ELSE [candles |-> all, signal |-> NoSignal]

\* Momentum30pt.on_candle_close: the history after the call and what it returns.
OnCandleClose(cs, candle) ==
    LET all == Append(cs, candle)
    IN  IF Len(all) < 2
        THEN [candles |-> all, signal |-> NoSignal]
        ELSE LET prior_candle == all[Len(all) - 1]
                 move == candle.close - prior_candle.close
                 direction == IF move > 0 THEN "Buy" ELSE "Sell"
                 stop == IF direction = "Buy" THEN candle.low ELSE candle.high
             IN  IF Abs(move) >= trigger_threshold
                 THEN [candles |-> all,
                       signal |-> <<SignalOf(direction, stop, candle, prior_candle, move)>>]
                 ELSE [candles |-> all, signal |-> NoSignal]

\* The bot taking its target from RiskManager.calculate_target, which puts it
\* at twice the risk.
CalculateTarget_TwoR(entry, stop, direction) ==
    LET risk_points == Abs(entry - stop)
    IN  IF direction = "Buy" THEN entry + risk_points * 2 ELSE entry - risk_points * 2

\* Momentum30pt.calculate_target
CalculateTarget(entry, stop, direction) ==
    IF direction = "Buy" THEN entry + Abs(entry - stop) ELSE entry - Abs(entry - stop)

StratCandleClose ==
    /\ Len(candles) < MaxCandles
    /\ \E candle \in CandleInputs(Len(candles) + 1) :
        LET r == OnCandleClose(candles, candle)
        IN  /\ candles' = r.candles
            /\ signalOut' = r.signal
            /\ current_signal' = IF r.signal # NoSignal THEN r.signal ELSE current_signal
    /\ UNCHANGED <<riskVars, orderVars, live, botVars, authVars, streamVars, stopVars>>

(***************************************************************************)
(* core/order_manager.py                                                   *)
(***************************************************************************)

\* Bound of the broker's order book.
MaxOrders == 2

\* MNQTradingBot.symbol
Symbol == "MNQH6"

\* How the broker answers a placeorder request: 200 with an orderId, 200
\* with a body that carries no orderId, another status, or an exception
\* raised by the request.
PlaceResponses == {"ok", "ok_noid", "rejected", "error"}

\* How the broker answers a cancelorder, modifyorder or list request.
Responses == {"ok", "rejected", "error"}

\* An absent (None) price, stop price or orderId.
NoPrice == -1
NoId == 0

\* Python's truth value of an optional number.
Truthy(x) == x # NoPrice /\ x # 0

OrderArgs(action, order_type, price, stop_price) ==
    [symbol |-> Symbol, action |-> action, qty |-> 1, order_type |-> order_type,
     price |-> price, stop_price |-> stop_price, time_in_force |-> "Day"]

\* The body of a placeorder request.
PlaceBody(args) ==
    [action |-> args.action, symbol |-> args.symbol, orderQty |-> args.qty,
     orderType |-> args.order_type, isAutomated |-> TRUE,
     timeInForce |-> args.time_in_force,
     price |-> IF Truthy(args.price) /\ args.order_type \in {"Limit", "StopLimit"}
               THEN args.price ELSE NoPrice,
     stopPrice |-> IF Truthy(args.stop_price) /\ args.order_type \in {"Stop", "StopLimit"}
                   THEN args.stop_price ELSE NoPrice]

\* Order, as place_order tracks it.
Order(order_id, args) ==
    [order_id |-> order_id, symbol |-> args.symbol, action |-> args.action,
     qty |-> args.qty, order_type |-> args.order_type, price |-> args.price,
     stop_price |-> args.stop_price, time_in_force |-> args.time_in_force,
     status |-> "Working"]

\* The broker's side of a placeorder request: an accepted order gets the
\* next orderId and starts Working.
BrokerPlace(book, resp) == IF resp = "ok" THEN Append(book, "Working") ELSE book

\* The orderId a placeorder response carries.
PlacedId(book, resp) == IF resp = "ok" THEN Len(book) + 1 ELSE NoId

\* OrderManager.place_order: the tracked orders after the call and what it
\* returns: the response's data (here the orderId it carries, NoId for a 200
\* without one), or None.
PlaceOrder(po, book, args, resp) ==
    IF resp \in {"ok", "ok_noid"}
    THEN [pending_orders |-> IF PlacedId(book, resp) # NoId
                             THEN (PlacedId(book, resp) :> Order(PlacedId(book, resp), args)) @@ po
                             ELSE po,
          result |-> <<PlacedId(book, resp)>>]
    ELSE [pending_orders |-> po, result |-> <<>>]

\* The broker's side of a cancelorder request.
BrokerCancel(book, order_id, resp) ==
    IF resp = "ok" /\ order_id \in DOMAIN book /\ book[order_id] = "Working"
    THEN [book EXCEPT ![order_id] = "Cancelled"]
    ELSE book

\* OrderManager.cancel_order
CancelOrder(po, order_id, resp) ==
    IF resp = "ok"
    THEN [pending_orders |-> IF order_id \in DOMAIN po
                             THEN [po EXCEPT ![order_id].status = "Cancelled"]
                             ELSE po,
          result |-> TRUE]
    ELSE [pending_orders |-> po, result |-> FALSE]

\* modify_order marking the order it modified as Working.
ModifyOrder_Reactivates(po, order_id, resp) ==
    IF resp = "ok"
    THEN [pending_orders |-> IF order_id \in DOMAIN po
                             THEN [po EXCEPT ![order_id].status = "Working"]
                             ELSE po,
          result |-> TRUE]
    ELSE [pending_orders |-> po, result |-> FALSE]

\* OrderManager.modify_order
ModifyOrder(po, order_id, resp) ==
    IF resp = "ok"
    THEN [pending_orders |-> po, result |-> TRUE]
    ELSE [pending_orders |-> po, result |-> FALSE]

\* OrderManager.get_orders: the broker's whole list on a 200, whatever the
\* status asked for, and the empty list otherwise.
GetOrders(book, status, resp) ==
    IF resp = "ok"
    THEN [i \in 1..Len(book) |-> [orderId |-> i, ordStatus |-> book[i]]]
    ELSE <<>>

\* flatten_all: the list it was handed, and the orders of it that it has
\* asked the broker to cancel so far.
FlatIdle == [pc |-> "idle", listed |-> <<>>, done |-> 0]

\* The arguments of the harness's direct place_order calls.
PlaceInputs ==
    {OrderArgs("Buy", "Market", NoPrice, NoPrice),
     OrderArgs("Sell", "Stop", NoPrice, 20505)}

OmPlaceOrder ==
    /\ Len(brokerOrders) < MaxOrders
    /\ \E args \in PlaceInputs, resp \in PlaceResponses :
        /\ pending_orders' = PlaceOrder(pending_orders, brokerOrders, args, resp).pending_orders
        /\ brokerOrders' = BrokerPlace(brokerOrders, resp)
    /\ UNCHANGED <<flat, notOrders>>

OmCancelOrder ==
    /\ \E order_id \in 1..MaxOrders, resp \in Responses :
        /\ pending_orders' = CancelOrder(pending_orders, order_id, resp).pending_orders
        /\ brokerOrders' = BrokerCancel(brokerOrders, order_id, resp)
    /\ UNCHANGED <<flat, notOrders>>

OmModifyOrder ==
    /\ \E order_id \in 1..MaxOrders, resp \in Responses :
        pending_orders' = ModifyOrder(pending_orders, order_id, resp).pending_orders
    /\ UNCHANGED <<brokerOrders, flat, notOrders>>

\* The broker fills a working order; nothing reports it to the order manager.
BrokerFill ==
    /\ \E order_id \in DOMAIN brokerOrders :
        /\ brokerOrders[order_id] = "Working"
        /\ brokerOrders' = [brokerOrders EXCEPT ![order_id] = "Filled"]
    /\ UNCHANGED <<pending_orders, flat, notOrders>>

\* flatten_all up to its first cancellation: the list request and its answer.
FlattenList ==
    /\ flat.pc \in {"idle", "done"}
    /\ \E resp \in Responses :
        flat' = [pc |-> "cancelling", listed |-> GetOrders(brokerOrders, "Working", resp),
                 done |-> 0]
    /\ UNCHANGED <<pending_orders, brokerOrders, notOrders>>

\* One turn of flatten_all's loop: cancel_order for the next listed order.
FlattenCancel ==
    /\ flat.pc = "cancelling"
    /\ flat.done < Len(flat.listed)
    /\ \E resp \in Responses :
        LET order_id == flat.listed[flat.done + 1].orderId
        IN  /\ pending_orders' = CancelOrder(pending_orders, order_id, resp).pending_orders
            /\ brokerOrders' = BrokerCancel(brokerOrders, order_id, resp)
            /\ flat' = [flat EXCEPT !.done = @ + 1]
    /\ UNCHANGED notOrders

\* flatten_all returns True.
FlattenReturn ==
    /\ flat.pc = "cancelling"
    /\ flat.done = Len(flat.listed)
    /\ flat' = [flat EXCEPT !.pc = "done"]
    /\ UNCHANGED <<pending_orders, brokerOrders, notOrders>>

\* The orders flatten_all has asked the broker to cancel.
FlattenCancelled == {flat.listed[i].orderId : i \in 1..flat.done}

(***************************************************************************)
(* main.py: _live_trade                                                    *)
(***************************************************************************)

\* Bound of the live-trade harness: the _live_trade calls it makes.
MaxLiveTrades == 1

Opposite(direction) == IF direction = "Buy" THEN "Sell" ELSE "Buy"

LiveIdle ==
    [pc |-> "idle", signal |-> NoSignal, target |-> NoPrice, requests |-> <<>>,
     results |-> <<>>, reported |-> <<>>, recorded |-> FALSE, count |-> 0,
     trades_before |-> 0]

\* What _live_trade and the components it drives hold.
World(l, po, book, rm, trades) ==
    [live |-> l, pending_orders |-> po, brokerOrders |-> book, risk |-> rm,
     trades_today |-> trades]

\* _live_trade is called with a signal and its target.
LiveCall(w, signal, target) ==
    [w EXCEPT !.live = [pc |-> "entry", signal |-> <<signal>>, target |-> target,
                        requests |-> <<>>, results |-> <<>>, reported |-> <<>>,
                        recorded |-> FALSE, count |-> w.live.count + 1,
                        trades_before |-> w.risk.trades_today]]

\* _live_trade going on to its protective legs whatever the entry returned.
LiveAfterEntry_Always(result) == "stop"

\* `if result:` on what the entry's place_order returned.
LiveAfterEntry(result) == IF result # <<>> THEN "stop" ELSE "done"

\* One place_order of _live_trade, with the code that follows it up to the
\* next request: the entry, then the stop leg, then the target leg with
\* record_trade and the bot's own counter.
LiveStep(w, resp) ==
    LET l == w.live
        signal == l.signal[1]
        args == IF l.pc = "entry"
                THEN OrderArgs(signal.direction, "Market", NoPrice, NoPrice)
                ELSE IF l.pc = "stop"
                THEN OrderArgs(Opposite(signal.direction), "Stop", NoPrice, signal.stop_price)
                ELSE OrderArgs(Opposite(signal.direction), "Limit", l.target, NoPrice)
        r == PlaceOrder(w.pending_orders, w.brokerOrders, args, resp)
        sent == [l EXCEPT !.requests = Append(@, PlaceBody(args)),
                          !.results = Append(@, r.result)]
        placed == [w EXCEPT !.pending_orders = r.pending_orders,
                            !.brokerOrders = BrokerPlace(w.brokerOrders, resp)]
    IN  IF l.pc = "entry"
        THEN IF LiveAfterEntry(r.result) = "stop"
             THEN [placed EXCEPT !.live = [sent EXCEPT !.pc = "stop",
                                                       !.reported = Append(@, "LIVE ENTRY FILLED")]]
             ELSE [placed EXCEPT !.live = [sent EXCEPT !.pc = "done"]]
        ELSE IF l.pc = "stop"
        THEN [placed EXCEPT !.live = [sent EXCEPT !.pc = "target",
                                                  !.reported = Append(@, "Stop placed")]]
        ELSE IF l.pc = "target"
        THEN [placed EXCEPT !.live = [sent EXCEPT !.pc = "done",
                                                  !.reported = Append(@, "Target placed"),
                                                  !.recorded = TRUE],
                            !.risk = RecordTrade(@),
                            !.trades_today = @ + 1]
        ELSE w

\* The signals the strategy can hand to _live_trade.
LiveSignals ==
    {OnCandleClose(<<a>>, b).signal[1] :
        <<a, b>> \in {p \in CandleInputs(1) \X CandleInputs(2) :
                         OnCandleClose(<<p[1]>>, p[2]).signal # NoSignal}}

TheWorld == World(live, pending_orders, brokerOrders, risk, trades_today)

\* The world after a step of _live_trade.
Becomes(w) ==
    /\ live' = w.live
    /\ pending_orders' = w.pending_orders
    /\ brokerOrders' = w.brokerOrders
    /\ risk' = w.risk
    /\ trades_today' = w.trades_today

\* _execute_signal hands one of the signals, with the target it computed for
\* it, to _live_trade.
LiveStartWith(signals) ==
    /\ mainTask = "awaiting_start"
    /\ live.pc \in {"idle", "done"}
    /\ live.count < MaxLiveTrades
    /\ \E signal \in signals :
        Becomes(LiveCall(TheWorld, signal,
                         CalculateTarget(signal.entry_price, signal.stop_price,
                                         signal.direction)))
    /\ UNCHANGED notLive

LiveStart == LiveStartWith(LiveSignals)

LiveEntry ==
    /\ mainTask = "awaiting_start"
    /\ live.pc = "entry"
    /\ \E resp \in PlaceResponses : Becomes(LiveStep(TheWorld, resp))
    /\ UNCHANGED notLive

LiveStopLeg ==
    /\ mainTask = "awaiting_start"
    /\ live.pc = "stop"
    /\ \E resp \in PlaceResponses : Becomes(LiveStep(TheWorld, resp))
    /\ UNCHANGED notLive

LiveTargetLeg ==
    /\ mainTask = "awaiting_start"
    /\ live.pc = "target"
    /\ \E resp \in PlaceResponses : Becomes(LiveStep(TheWorld, resp))
    /\ UNCHANGED notLive

(***************************************************************************)
(* core/market_data.py and main.py: the coordinator                        *)
(***************************************************************************)

\* Bounds of the coordinator: the candle intervals that elapse, and the
\* quotes one frame carries.
MaxClock == 3
MaxFrameQuotes == 2

\* Last prices 230 points apart: a close-to-close move beyond the threshold
\* whose risk is worth the $100 of r_per_trade.
QuotePrices == {20000, 20230}

\* TradovateAuth.account_id, and another account of the same user.
AccountId == "account"
Accounts == {AccountId, "other"}

QuoteInputs == {[contractId |-> Symbol, price |-> p, volume |-> 1000] : p \in QuotePrices}

PositionInputs ==
    {[accountId |-> a, contractId |-> Symbol, netPos |-> n] : a \in Accounts, n \in {0, 1}}

SeqsUpTo(S, n) == UNION {[1..k -> S] : k \in 0..n}

\* The frames the stream delivers: {"d": {"quotes": [...], "positions": [...]}},
\* with several quotes, or with a position and at most one quote.
Frames ==
    {f \in [quotes : SeqsUpTo(QuoteInputs, MaxFrameQuotes),
            positions : SeqsUpTo(PositionInputs, 1)] :
        Len(f.quotes) <= 1 \/ f.positions = <<>>}

NoCandle == <<>>

\* _on_quote stamping every candle with the time the bot started.
OnQuote_StartTime(cc, quote, now) ==
    IF cc = NoCandle
    THEN <<Candle(quote.price, quote.price, quote.price, quote.price, quote.volume, 0)>>
    ELSE <<[cc[1] EXCEPT !.high = Max(@, quote.price),
                         !.low = Min(@, quote.price),
                         !.close = quote.price,
                         !.volume = quote.volume]>>

\* _on_quote moving only the close of an open candle.
OnQuote_CloseOnly(cc, quote, now) ==
    IF cc = NoCandle
    THEN <<Candle(quote.price, quote.price, quote.price, quote.price, quote.volume, now)>>
    ELSE <<[cc[1] EXCEPT !.close = quote.price,
                         !.volume = quote.volume]>>

\* MNQTradingBot._on_quote
OnQuote(cc, quote, now) ==
    IF cc = NoCandle
    THEN <<Candle(quote.price, quote.price, quote.price, quote.price, quote.volume, now)>>
    ELSE <<[cc[1] EXCEPT !.high = Max(@, quote.price),
                         !.low = Min(@, quote.price),
                         !.close = quote.price,
                         !.volume = quote.volume]>>

\* Whether the quote handler start() registers returns an awaitable:
\* _on_quote is a plain function, and _handle_message awaits its result.
HandlerIsCoroutine == FALSE

\* The quotes branch of _handle_message: each quote is stored and handed to
\* the handler; awaiting what a plain function returned raises TypeError.
RECURSIVE DispatchQuotes(_, _, _, _)
DispatchQuotes(qs, qmap, cc, now) ==
    IF qs = <<>>
    THEN [quotes |-> qmap, current_candle |-> cc, raised |-> FALSE]
    ELSE LET quote == Head(qs)
             stored == (quote.contractId :> quote.price) @@ qmap
             handled == OnQuote(cc, quote, now)
         IN  IF HandlerIsCoroutine
             THEN DispatchQuotes(Tail(qs), stored, handled, now)
             ELSE [quotes |-> stored, current_candle |-> handled, raised |-> TRUE]

\* The positions branch of _handle_message: the positions of this account
\* are stored; no position handler is registered.
RECURSIVE StorePositions(_, _)
StorePositions(ps, pmap) ==
    IF ps = <<>>
    THEN pmap
    ELSE LET pos_data == Head(ps)
         IN  StorePositions(Tail(ps),
                            IF pos_data.accountId = AccountId
                            THEN (pos_data.contractId :> pos_data.netPos) @@ pmap
                            ELSE pmap)

\* MarketDataClient._handle_message on a frame with data: an exception ends
\* the handling of the frame.
HandleMessage(frame, qmap, pmap, cc, now) ==
    LET q == DispatchQuotes(frame.quotes, qmap, cc, now)
    IN  [quotes |-> q.quotes,
         current_candle |-> q.current_candle,
         positions |-> IF q.raised THEN pmap ELSE StorePositions(frame.positions, pmap),
         raised |-> IF q.raised THEN "Exception" ELSE "none"]

\* The frames that carry nothing the listener can route: text json.loads
\* cannot read, JSON that is no object, an object without quotes or positions.
DroppedFrames == {"bad_json", "not_object", "unrecognized"}

\* What handling such a frame raises: json.loads raises on unreadable text,
\* data.get on what is no object; an object with neither key passes both tests
\* of _handle_message.
Raises(kind) == IF kind \in {"bad_json", "not_object"} THEN "Exception" ELSE "none"

\* _listener printing ConnectionClosed like any other exception.
ListenerCatch_IgnoresClose(conn, exc) == conn

\* _listener leaving its loop on any exception.
ListenerCatch_BreaksOnError(conn, exc) ==
    IF exc = "none" THEN conn ELSE FALSE

\* The except clauses of _listener: ConnectionClosed clears connected and
\* breaks; any other exception is printed and the loop goes on.
ListenerCatch(conn, exc) ==
    IF exc = "ConnectionClosed" THEN FALSE ELSE conn

NoDrop == [kind |-> "none", quotes |-> <<>>, positions |-> <<>>, current_candle |-> NoCandle]

\* The net quantity market_data tracks for the traded symbol.
TrackedQty(pmap) == IF Symbol \in DOMAIN pmap THEN pmap[Symbol] ELSE 0

\* The attributes MNQTradingBot.__init__ sets.
BotAttributes ==
    {"symbol", "paper_mode", "auth", "orders", "market_data", "risk", "strategy",
     "running", "current_candle", "last_signal", "trades_today", "daily_pnl"}

\* The guardrail with self.position set to None and never updated.
PositionGuard_Unset(qty) == "pass"

\* The guardrail of _execute_signal, `if self.position and self.position.qty != 0`:
\* reading an attribute the bot does not have raises AttributeError.
PositionGuard(qty) ==
    IF "position" \notin BotAttributes
    THEN "AttributeError"
    ELSE IF qty # 0 THEN "skip" ELSE "pass"

\* _paper_trade writing its record under the mode of a live trade.
PaperRecord_LiveMode(signal, target, now) ==
    [time |-> now, symbol |-> Symbol, direction |-> signal.direction,
     entry |-> signal.entry_price, stop |-> signal.stop_price, target |-> target,
     risk |-> signal.risk_points, mode |-> "LIVE"]

\* MNQTradingBot._paper_trade's record.
PaperRecord(signal, target, now) ==
    [time |-> now, symbol |-> Symbol, direction |-> signal.direction,
     entry |-> signal.entry_price, stop |-> signal.stop_price, target |-> target,
     risk |-> signal.risk_points, mode |-> "PAPER"]

NoExec == [qty |-> 0, outcome |-> "none"]

\* _execute_signal from its risk check on: check_entry, and on approval the
\* paper or the live trade.
ExecuteChecked(signal, qty) ==
    LET direction == signal.direction
        entry == signal.entry_price
        stop == signal.stop_price
        target == CalculateTarget(entry, stop, direction)
        v == CheckEntry(risk, config, direction, 1, entry, stop)
    IN  /\ riskCall' = [op |-> "check_entry", pre |-> risk, size |-> 1,
                        entry_price |-> entry, stop_price |-> stop,
                        realized_pnl |-> 0,
                        allowed |-> v.allowed, reason |-> v.reason]
        /\ IF ~v.allowed
           THEN /\ risk' = v.rm
                /\ lastExec' = [qty |-> qty, outcome |-> "risk_block"]
                /\ UNCHANGED <<pending_orders, brokerOrders, live, trades_today,
                               paper_log>>
           ELSE IF paper_mode
           THEN /\ paper_log' = Append(paper_log, PaperRecord(signal, target, clock))
                /\ risk' = RecordTrade(v.rm)
                /\ trades_today' = trades_today + 1
                /\ lastExec' = [qty |-> qty, outcome |-> "paper"]
                /\ UNCHANGED <<pending_orders, brokerOrders, live>>
           ELSE /\ \E r1, r2, r3 \in PlaceResponses :
                       Becomes(LiveStep(LiveStep(LiveStep(
                           LiveCall(World(live, pending_orders, brokerOrders,
                                          v.rm, trades_today), signal, target),
                           r1), r2), r3))
                /\ lastExec' = [qty |-> qty,
                                outcome |-> IF live'.requests # <<>> THEN "live" ELSE "none"]
                /\ UNCHANGED paper_log

\* MNQTradingBot._execute_signal, as _candle_builder awaits it.  An exception
\* it raises ends the _candle_builder task.
ExecuteSignal(signal) ==
    LET qty == TrackedQty(positions)
        guard == PositionGuard(qty)
    IN  IF guard = "AttributeError"
        THEN /\ cbTask' = "AttributeError"
             /\ lastExec' = [qty |-> qty, outcome |-> "AttributeError"]
             /\ UNCHANGED <<risk, riskCall, pending_orders, brokerOrders, live,
                            trades_today, paper_log>>
        ELSE IF guard = "skip"
        THEN /\ lastExec' = [qty |-> qty, outcome |-> "guardrail"]
             /\ UNCHANGED <<risk, riskCall, pending_orders, brokerOrders, live,
                            trades_today, paper_log, cbTask>>
        ELSE /\ UNCHANGED cbTask
             /\ ExecuteChecked(signal, qty)

\* The signals handed to the risk check: a breakout of 230 points up, one of
\* 230 points down (each worth more than r_per_trade at $0.50 a point), and
\* the 40 point bracket, which is not.
ExecSignals ==
    {OnCandleClose(<<Candle(20000, 20000, 20000, 20000, 1000, 1)>>,
                   Candle(20000, 20230, 20000, 20230, 1000, 2)).signal[1],
     OnCandleClose(<<Candle(20230, 20230, 20230, 20230, 1000, 1)>>,
                   Candle(20230, 20230, 20000, 20000, 1000, 2)).signal[1],
     OnCandleClose(<<Candle(20505, 20505, 20505, 20505, 1000, 1)>>,
                   Candle(20505, 20545, 20505, 20545, 1000, 2)).signal[1]}

\* _execute_signal, past its guardrail, for one signal.
Execute(signal) ==
    /\ paper_mode \/ live.count < MaxLiveTrades
    /\ ExecuteChecked(signal, TrackedQty(positions))
    /\ UNCHANGED <<today, config, stratVars, flat, paper_mode, current_candle, last_signal,
                   quotes, positions, cbTask, clock, authVars, streamVars, stopVars>>

\* _execute_signal, past its guardrail, for a signal of the strategy.
ExecuteFromCheck == \E signal \in ExecSignals : Execute(signal)

\* The market-data listener receives the frame and handles it.
Listener(frame) ==
    /\ connected
    /\ ws = "open"
    /\ LET h == HandleMessage(frame, quotes, positions, current_candle, clock)
       IN  /\ quotes' = h.quotes
           /\ positions' = h.positions
           /\ current_candle' = h.current_candle
           /\ connected' = ListenerCatch(connected, h.raised)
    /\ UNCHANGED <<riskVars, stratVars, orderVars, live, paper_mode, last_signal,
                   trades_today, paper_log, cbTask, clock, lastExec, authVars, lastDrop, ws,
                   stopVars>>

\* The market-data listener receives a frame with data.
ListenerFrame == \E frame \in Frames : Listener(frame)

\* The market-data listener receives a frame it cannot read or route: no
\* handler is reached.
ListenerDrop ==
    /\ connected
    /\ ws = "open"
    /\ \E kind \in DroppedFrames :
        /\ connected' = ListenerCatch(connected, Raises(kind))
        /\ lastDrop' = [kind |-> kind, quotes |-> quotes, positions |-> positions,
                        current_candle |-> current_candle]
    /\ UNCHANGED <<riskVars, stratVars, orderVars, live, botVars, authVars, ws, stopVars>>

\* The remote end closes the stream: the listener's recv raises
\* ConnectionClosed.
StreamClosed ==
    /\ connected
    /\ ws = "open"
    /\ ws' = "closed"
    /\ connected' = ListenerCatch(connected, "ConnectionClosed")
    /\ UNCHANGED <<riskVars, stratVars, orderVars, live, botVars, authVars, lastDrop,
                   stopVars>>

\* MarketDataClient.disconnect: `if self.ws:` close it and clear connected.
\* The listener, woken by the close, finds ConnectionClosed and does the same.
Disconnect ==
    /\ ws' = IF ws # "none" THEN "closed" ELSE ws
    /\ connected' = IF ws # "none" THEN FALSE ELSE connected
    /\ UNCHANGED <<riskVars, stratVars, orderVars, live, botVars, authVars, lastDrop,
                   stopVars>>

\* _candle_builder with an accumulator that is never empty: an interval
\* without quotes yields a flat candle of no volume.
TakeCandle_Synthetic(cc) ==
    IF cc = NoCandle
    THEN [candle |-> <<Candle(20000, 20000, 20000, 20000, 0, 0)>>, current_candle |-> NoCandle]
    ELSE [candle |-> cc, current_candle |-> NoCandle]

\* _candle_builder taking the candle without clearing the accumulator.
TakeCandle_KeepsCandle(cc) ==
    IF cc = NoCandle
    THEN [candle |-> NoCandle, current_candle |-> NoCandle]
    ELSE [candle |-> cc, current_candle |-> cc]

\* What _candle_builder takes when it wakes: `if not self.current_candle:
\* continue`, else `candle = self.current_candle; self.current_candle = None`.
TakeCandle(cc) ==
    IF cc = NoCandle
    THEN [candle |-> NoCandle, current_candle |-> NoCandle]
    ELSE [candle |-> cc, current_candle |-> NoCandle]

\* The 300 seconds of an interval elapse.  _candle_builder, unless an
\* exception has ended it, wakes: with no candle open it goes back to sleep;
\* otherwise it takes the candle, clears the accumulator, hands the candle to
\* the strategy and executes the signal it returns.
CandleTimer ==
    /\ clock < MaxClock
    /\ clock' = clock + 1
    /\ UNCHANGED <<today, config, flat, paper_mode, quotes, positions, authVars, streamVars, stopVars>>
    /\ LET taken == TakeCandle(current_candle)
       IN  IF cbTask # "sleeping" \/ taken.candle = NoCandle
           THEN UNCHANGED <<risk, riskCall, stratVars, pending_orders, brokerOrders, live,
                            current_candle, last_signal, trades_today, paper_log, cbTask,
                            lastExec>>
           ELSE LET r == OnCandleClose(candles, taken.candle[1])
                IN  /\ current_candle' = taken.current_candle
                    /\ candles' = r.candles
                    /\ signalOut' = r.signal
                    /\ current_signal' = IF r.signal # NoSignal THEN r.signal ELSE current_signal
                    /\ IF r.signal = NoSignal
                       THEN UNCHANGED <<risk, riskCall, pending_orders, brokerOrders, live,
                                        last_signal, trades_today, paper_log, cbTask, lastExec>>
                       ELSE /\ last_signal' = r.signal
                            /\ ExecuteSignal(r.signal[1])

(***************************************************************************)
(* main.py: shutdown                                                       *)
(***************************************************************************)

\* The bracket that is being placed when the bot is stopped: long from 20545
\* with the stop at 20505.
ShutdownSignal ==
    CHOOSE s \in LiveSignals :
        s.direction = "Buy" /\ s.entry_price = 20545 /\ s.stop_price = 20505

\* The candle builder, woken before or after stop() cleared running (it
\* looks at running only before it goes to sleep), executes a signal live.
StopLiveStart == LiveStartWith({ShutdownSignal})

\* The stop() calls that are made: each SIGINT starts one as a task of its own.
MaxStops == 2

\* A stop() call: where it waits, the list its flatten_all was handed, the
\* orders of it that it has asked the broker to cancel, and whether the list
\* request and every cancel request so far were answered with a 200.
StopIdle == [pc |-> "idle", listed |-> <<>>, done |-> 0, clean |-> TRUE]

\* What a cancel request of flatten_all can meet: an answer, an exception of
\* the request, or no answer at all.  No request of the code carries a timeout.
CancelResponses == Responses \cup {"no_response"}

\* SIGINT: the handler creates a task for stop().  stop() clears running and,
\* the order manager being there, awaits flatten_all, whose get_orders sends
\* the list request.
StopCalled ==
    /\ mainTask = "awaiting_start"
    /\ \E i \in 1..MaxStops :
        /\ stopCalls[i].pc = "idle"
        /\ \A j \in 1..(i - 1) : stopCalls[j].pc # "idle"
        /\ stopCalls' = [stopCalls EXCEPT ![i].pc = "list"]
    /\ running' = FALSE
    /\ UNCHANGED <<riskVars, stratVars, orderVars, live, botVars, authVars, streamVars,
                   mainTask>>

\* The list request of a stop() call is answered: flatten_all has its orders.
StopList ==
    /\ mainTask = "awaiting_start"
    /\ \E i \in 1..MaxStops, resp \in Responses :
        /\ stopCalls[i].pc = "list"
        /\ stopCalls' = [stopCalls EXCEPT
                            ![i].pc = "cancelling",
                            ![i].listed = GetOrders(brokerOrders, "Working", resp),
                            ![i].clean = (resp = "ok")]
    /\ UNCHANGED <<riskVars, stratVars, orderVars, live, botVars, authVars, streamVars,
                   running, mainTask>>

\* flatten_all of a stop() call cancels the next order of its list and
\* ignores what cancel_order returns; a request that is never answered is
\* awaited for good.
StopCancel ==
    /\ mainTask = "awaiting_start"
    /\ \E i \in 1..MaxStops, resp \in CancelResponses :
        /\ stopCalls[i].pc = "cancelling"
        /\ stopCalls[i].done < Len(stopCalls[i].listed)
        /\ LET order_id == stopCalls[i].listed[stopCalls[i].done + 1].orderId
           IN  IF resp = "no_response"
               THEN /\ stopCalls' = [stopCalls EXCEPT ![i].pc = "blocked",
                                                      ![i].clean = FALSE]
                    /\ UNCHANGED <<pending_orders, brokerOrders>>
               ELSE /\ stopCalls' = [stopCalls EXCEPT
                                        ![i].done = @ + 1,
                                        ![i].clean = @ /\ resp = "ok"]
                    /\ pending_orders' = CancelOrder(pending_orders, order_id, resp).pending_orders
                    /\ brokerOrders' = BrokerCancel(brokerOrders, order_id, resp)
    /\ UNCHANGED <<riskVars, stratVars, flat, live, botVars, authVars, streamVars,
                   running, mainTask>>

\* flatten_all of a stop() call has gone through its list and returns;
\* stop() disconnects the market-data client and reports.
StopDisconnect ==
    /\ mainTask = "awaiting_start"
    /\ \E i \in 1..MaxStops :
        /\ stopCalls[i].pc = "cancelling"
        /\ stopCalls[i].done = Len(stopCalls[i].listed)
        /\ stopCalls' = [stopCalls EXCEPT ![i].pc = "done"]
    /\ ws' = IF ws # "none" THEN "closed" ELSE ws
    /\ connected' = IF ws # "none" THEN FALSE ELSE connected
    /\ UNCHANGED <<riskVars, stratVars, orderVars, live, botVars, authVars, lastDrop,
                   running, mainTask>>

\* start()'s idle wait wakes and finds running cleared: start() and main()
\* return, and asyncio.run cancels the tasks that have not finished.
MainExit ==
    /\ mainTask = "awaiting_start"
    /\ ~running
    /\ mainTask' = "exited"
    /\ stopCalls' = [i \in 1..MaxStops |->
                        IF stopCalls[i].pc \in {"list", "cancelling", "blocked"}
                        THEN [stopCalls[i] EXCEPT !.pc = "cancelled"]
                        ELSE stopCalls[i]]
    /\ UNCHANGED <<riskVars, stratVars, orderVars, live, botVars, authVars, streamVars,
                   running>>

(***************************************************************************)
(* utils/auth_manager.py                                                   *)
(***************************************************************************)

\* Bound of the session's life, in minutes.
MaxMinutes == 91

\* TradovateAuth.renew_threshold, the tokens' life ("Tokens expire in 90
\* minutes (renew at 75)") and auto_renew's sleep, in minutes.
renew_threshold == 75
expiry_window == 90
check_interval == 1

NoToken == <<>>

\* A token as the broker issues it: the response that carried it, the
\* session (the accessTokenRequest) it belongs to, the minute of its issue.
Token(kind, id, session, at) == [kind |-> kind, id |-> id, session |-> session, at |-> at]

\* TradovateAuth.__init__
TradovateAuthInit ==
    [access_token |-> NoToken, md_access_token |-> NoToken, user_id |-> <<>>,
     account_id |-> <<>>, token_created |-> <<>>]

\* TRADOVATE_ACCOUNT_ID
account_id_from_env == <<AccountId>>

\* The body of the broker's answer to accessTokenRequest number id.
AuthData(id, now) ==
    [accessToken |-> <<Token("access", id, id, now)>>,
     mdAccessToken |-> <<Token("md", id, id, now)>>,
     userId |-> <<"user">>,
     accountId |-> <<AccountId>>]

\* The body of the broker's answer to renewAccessToken number id, sent under
\* the bearer token: a new access token of the bearer's session.
RenewData(id, bearer, now) ==
    [accessToken |-> <<Token("access", id, bearer.session, now)>>]

\* authenticate storing the access token and leaving the other fields for later.
AuthenticateAssign_TokenOnly(a, data, now) ==
    [a EXCEPT !.access_token = data.accessToken]

\* The assignments of authenticate, which no await separates.
AuthenticateAssign(a, data, now) ==
    [access_token |-> data.accessToken,
     md_access_token |-> data.mdAccessToken,
     user_id |-> data.userId,
     account_id |-> IF data.accountId # <<>> THEN data.accountId ELSE account_id_from_env,
     token_created |-> <<now>>]

\* TradovateAuth.authenticate: the fields after the call and what it returns.
\* A status other than 200 and an exception both return False.
Authenticate(a, resp, id, now) ==
    IF resp = "ok"
    THEN [auth |-> AuthenticateAssign(a, AuthData(id, now), now), result |-> TRUE]
    ELSE [auth |-> a, result |-> FALSE]

\* The assignments of renew_token on a 200, which no await separates.
RenewAssign(a, data, now) ==
    [a EXCEPT !.access_token = data.accessToken, !.token_created = <<now>>]

\* The answers to renewAccessToken: 200, another status, an exception of the
\* request, a 200 whose body resp.json() cannot read.
RenewResponses == {"ok", "rejected", "error", "bad_json"}

\* renew_token returning False on a failed renewal.
RenewOutcome_GivesUp(resp) ==
    IF resp = "ok" THEN "renewed" ELSE "failed"

\* What renew_token does with the answer: on a 200 it stores the token, on
\* any other status and on any exception it returns authenticate()'s result.
RenewOutcome(resp) ==
    IF resp = "ok" THEN "renewed" ELSE "authenticate"

\* renew_token has not been called.
NoRenewCall ==
    [age |-> 0, request |-> "none", acquires |-> 0, acquired |-> <<>>, result |-> <<>>]

RenewIdle == [pc |-> "not_started", call |-> NoRenewCall]

NoRead ==
    [outcome |-> "none", access_token |-> NoToken, md_access_token |-> NoToken,
     account_id |-> <<>>, token_created |-> <<>>, age |-> 0]

\* TradovateAuth.get_auth_headers as an order request calls it, with the
\* other fields of the session as they are at that moment.
GetAuthHeaders(a, now) ==
    IF a.access_token = NoToken
    THEN [NoRead EXCEPT !.outcome = "RuntimeError"]
    ELSE [outcome |-> "headers", access_token |-> a.access_token,
          md_access_token |-> a.md_access_token, account_id |-> a.account_id,
          token_created |-> a.token_created,
          age |-> IF a.token_created = <<>> THEN 0 ELSE now - a.token_created[1]]

\* start(): authenticate, and on success create the auto_renew task.
StartAuthenticate ==
    /\ renewTask.pc = "not_started"
    /\ auth.access_token = NoToken
    /\ \E resp \in Responses :
        LET r == Authenticate(auth, resp, issued + 1, minutes)
        IN  /\ auth' = r.auth
            /\ issued' = IF resp = "ok" THEN issued + 1 ELSE issued
            /\ renewTask' = IF r.result THEN [renewTask EXCEPT !.pc = "sleeping"] ELSE renewTask
    /\ UNCHANGED <<minutes, lastRead, notAuth>>

\* auto_renew wakes from its sleep: without a creation time it sleeps again;
\* once the token's age has reached the threshold it calls renew_token, which
\* sends the renewal under the access token, or authenticates if there is none.
AutoRenewWake ==
    /\ renewTask.pc = "sleeping"
    /\ minutes < MaxMinutes
    /\ minutes' = minutes + check_interval
    /\ LET elapsed == IF auth.token_created = <<>> THEN 0 ELSE minutes' - auth.token_created[1]
       IN  renewTask' =
               IF auth.token_created = <<>> \/ elapsed < renew_threshold
               THEN renewTask
               ELSE IF auth.access_token = NoToken
               THEN [pc |-> "auth_post",
                     call |-> [NoRenewCall EXCEPT !.age = elapsed, !.acquires = 1]]
               ELSE [pc |-> "renew_post",
                     call |-> [NoRenewCall EXCEPT !.age = elapsed, !.request = "sent"]]
    /\ UNCHANGED <<auth, issued, lastRead, notAuth>>

\* The renewal request is answered.
RenewResponse ==
    /\ renewTask.pc = "renew_post"
    /\ \E resp \in RenewResponses :
        LET outcome == RenewOutcome(resp)
            call == [renewTask.call EXCEPT !.request = resp]
        IN  IF outcome = "renewed"
            THEN /\ auth' = RenewAssign(auth, RenewData(issued + 1, auth.access_token[1], minutes),
                                        minutes)
                 /\ issued' = issued + 1
                 /\ renewTask' = [pc |-> "sleeping", call |-> [call EXCEPT !.result = <<TRUE>>]]
            ELSE IF outcome = "authenticate"
            THEN /\ renewTask' = [pc |-> "auth_post",
                                  call |-> [call EXCEPT !.acquires = @ + 1]]
                 /\ UNCHANGED <<auth, issued>>
            ELSE /\ renewTask' = [pc |-> "sleeping", call |-> [call EXCEPT !.result = <<FALSE>>]]
                 /\ UNCHANGED <<auth, issued>>
    /\ UNCHANGED <<minutes, lastRead, notAuth>>

\* The authenticate() that renew_token fell back to is answered; renew_token
\* returns its result.
AuthResponse ==
    /\ renewTask.pc = "auth_post"
    /\ \E resp \in Responses :
        LET r == Authenticate(auth, resp, issued + 1, minutes)
        IN  /\ auth' = r.auth
            /\ issued' = IF resp = "ok" THEN issued + 1 ELSE issued
            /\ renewTask' = [pc |-> "sleeping",
                             call |-> [renewTask.call EXCEPT !.acquired = <<r.result>>,
                                                             !.result = <<r.result>>]]
    /\ UNCHANGED <<minutes, lastRead, notAuth>>

\* An order request (place, cancel, modify, list) asks for its headers.
OrderRequest ==
    /\ lastRead' = GetAuthHeaders(auth, minutes)
    /\ UNCHANGED <<auth, minutes, issued, renewTask, notAuth>>

(***************************************************************************)
(* The specifications                                                      *)
(***************************************************************************)

AuthIdle ==
    /\ auth = TradovateAuthInit
    /\ minutes = 0
    /\ issued = 0
    /\ renewTask = RenewIdle
    /\ lastRead = NoRead

RiskIdle ==
    /\ today = 0
    /\ config = BotConfig
    /\ risk = RiskManagerInit(0)
    /\ riskCall = NoRiskCall

StratIdle ==
    /\ candles = <<>>
    /\ current_signal = NoSignal
    /\ signalOut = NoSignal

OrdersIdle ==
    /\ pending_orders = <<>>
    /\ brokerOrders = <<>>
    /\ flat = FlatIdle

BotIdle ==
    /\ paper_mode = TRUE
    /\ current_candle = NoCandle
    /\ last_signal = NoSignal
    /\ trades_today = 0
    /\ paper_log = <<>>
    /\ quotes = <<>>
    /\ positions = <<>>
    /\ cbTask = "sleeping"
    /\ clock = 0
    /\ lastExec = NoExec
    /\ connected = FALSE
    /\ lastDrop = NoDrop
    /\ ws = "none"
    /\ running = FALSE
    /\ stopCalls = [i \in 1..MaxStops |-> StopIdle]
    /\ mainTask = "awaiting_start"

\* The risk manager alone, driven through its public methods.
InitRisk ==
    /\ today = 0
    /\ config \in RiskConfigs
    /\ risk = RiskManagerInit(0)
    /\ riskCall = NoRiskCall
    /\ StratIdle /\ OrdersIdle /\ BotIdle /\ AuthIdle /\ live = LiveIdle

NextRisk ==
    \/ RmCheckEntry
    \/ RmUpdatePnl
    \/ RmRecordTrade
    \/ RmResetDay
    \/ DayPasses

SpecRisk == InitRisk /\ [][NextRisk]_vars

\* The strategy alone, handed one completed candle after another.
InitStrategy == RiskIdle /\ StratIdle /\ OrdersIdle /\ BotIdle /\ AuthIdle /\ live = LiveIdle

NextStrategy == StratCandleClose

SpecStrategy == InitStrategy /\ [][NextStrategy]_vars

\* The order manager alone, against a broker that fills and rejects.
InitOrders == RiskIdle /\ StratIdle /\ OrdersIdle /\ BotIdle /\ AuthIdle /\ live = LiveIdle

NextOrders ==
    \/ OmPlaceOrder
    \/ OmCancelOrder
    \/ OmModifyOrder
    \/ BrokerFill
    \/ FlattenList
    \/ FlattenCancel
    \/ FlattenReturn

SpecOrders == InitOrders /\ [][NextOrders]_vars

\* _live_trade alone, in live mode.
InitLive ==
    /\ RiskIdle /\ StratIdle /\ OrdersIdle /\ AuthIdle /\ live = LiveIdle
    /\ paper_mode = FALSE
    /\ current_candle = NoCandle
    /\ last_signal = NoSignal
    /\ trades_today = 0
    /\ paper_log = <<>>
    /\ quotes = <<>>
    /\ positions = <<>>
    /\ cbTask = "sleeping"
    /\ clock = 0
    /\ lastExec = NoExec
    /\ connected = TRUE
    /\ lastDrop = NoDrop
    /\ ws = "open"
    /\ running = TRUE
    /\ stopCalls = [i \in 1..MaxStops |-> StopIdle]
    /\ mainTask = "awaiting_start"

NextLive ==
    \/ LiveStart
    \/ LiveEntry
    \/ LiveStopLeg
    \/ LiveTargetLeg

SpecLive == InitLive /\ [][NextLive]_vars

\* Shutdown: stop() calls and the return of main(), while a live bracket
\* placement may be in flight.
InitStop == InitLive

NextStop ==
    \/ StopCalled
    \/ StopList
    \/ StopCancel
    \/ StopDisconnect
    \/ MainExit
    \/ StopLiveStart
    \/ LiveEntry
    \/ LiveStopLeg
    \/ LiveTargetLeg

SpecStop == InitStop /\ [][NextStop]_vars

\* The session alone: start()'s authenticate, the auto_renew task and the
\* order requests that read the session while it runs.
InitAuth == RiskIdle /\ StratIdle /\ OrdersIdle /\ BotIdle /\ AuthIdle /\ live = LiveIdle

NextAuth ==
    \/ StartAuthenticate
    \/ AutoRenewWake
    \/ RenewResponse
    \/ AuthResponse
    \/ OrderRequest

SpecAuth == InitAuth /\ [][NextAuth]_vars

\* The running bot, after start(): the listener and the candle builder.
Init ==
    /\ RiskIdle /\ StratIdle /\ OrdersIdle /\ AuthIdle /\ live = LiveIdle
    /\ paper_mode \in BOOLEAN
    /\ current_candle = NoCandle
    /\ last_signal = NoSignal
    /\ trades_today = 0
    /\ paper_log = <<>>
    /\ quotes = <<>>
    /\ positions = <<>>
    /\ cbTask = "sleeping"
    /\ clock = 0
    /\ lastExec = NoExec
    /\ connected = TRUE
    /\ lastDrop = NoDrop
    /\ ws = "open"
    /\ running = TRUE
    /\ stopCalls = [i \in 1..MaxStops |-> StopIdle]
    /\ mainTask = "awaiting_start"

\* The executions alone, from the risk check on, in either mode.
InitExecute == Init

NextExecute == ExecuteFromCheck

SpecExecute == InitExecute /\ [][NextExecute]_vars

\* The market-data client after connect(), with the coordinator's handler
\* registered: the listener alone, on every kind of frame.
InitStream == Init /\ paper_mode = TRUE

NextStream ==
    \/ ListenerFrame
    \/ ListenerDrop
    \/ StreamClosed
    \/ Disconnect

SpecStream == InitStream /\ [][NextStream]_vars

Next ==
    \/ ListenerFrame
    \/ CandleTimer

Spec == Init /\ [][Next]_vars

(***************************************************************************)
(* The claims                                                              *)
(***************************************************************************)

\* C1: no step taken while the tracked position of the traded symbol is
\* nonzero places an order or writes a paper record: an execution that runs
\* under a nonzero tracked quantity opens no bracket, in paper or live mode,
\* however position updates and candle closes interleave.
C1_NoSecondBracket ==
    [][TrackedQty(positions) # 0 =>
          /\ paper_log' = paper_log
          /\ brokerOrders' = brokerOrders
          /\ pending_orders' = pending_orders
          /\ lastExec'.outcome \notin {"paper", "live"}]_vars

\* An execution has run under a nonzero tracked quantity and opened nothing.
C1_Witness ==
    /\ lastExec.qty # 0
    /\ lastExec.outcome = "AttributeError"
    /\ paper_log = <<>>
    /\ brokerOrders = <<>>

\* C2: check_entry never returns allowed = True when the kill switch was set
\* or daily_pnl <= max_daily_loss at the call, whatever its arguments.
C2_NeverAllowedWhenBlocked ==
    (/\ riskCall.op = "check_entry"
     /\ \/ riskCall.pre.kill_switch_triggered
        \/ riskCall.pre.daily_pnl <= config.max_daily_loss)
    => ~riskCall.allowed

\* check_entry rejected under a kill switch that outlived the loss that set it.
C2_Witness ==
    /\ riskCall.op = "check_entry"
    /\ riskCall.pre.kill_switch_triggered
    /\ riskCall.pre.daily_pnl > config.max_daily_loss
    /\ riskCall.pre.trades_today < config.max_trades_per_day
    /\ riskCall.size <= config.max_position_size
    /\ ~PoorRR(config, riskCall.entry_price, riskCall.stop_price)
    /\ ~riskCall.allowed

\* C3: a set kill switch stays set through check_entry, update_pnl,
\* record_trade and same-day reset_day; only a reset_day that finds the
\* current date past daily_start clears it.
C3_KillSwitchSticky ==
    [][(risk.kill_switch_triggered /\ ~risk'.kill_switch_triggered)
          => (riskCall'.op = "reset_day" /\ today > risk.daily_start)]_vars

\* The switch has survived a same-day reset_day and a recovery of the P&L.
C3_Witness ==
    /\ riskCall.op = "reset_day"
    /\ riskCall.pre.kill_switch_triggered
    /\ risk.kill_switch_triggered
    /\ risk.daily_pnl > config.max_daily_loss
    /\ today = risk.daily_start

\* C4: check_entry reports the first failing check in the order kill switch,
\* daily loss, max trades, max size, poor risk-reward, and allows the entry
\* only when none fails.
C4_FirstFailureInOrder ==
    riskCall.op = "check_entry" =>
        LET pre == riskCall.pre
            killed == pre.kill_switch_triggered
            loss == pre.daily_pnl <= config.max_daily_loss
            trades == pre.trades_today >= config.max_trades_per_day
            size == riskCall.size > config.max_position_size
            poor == Abs(riskCall.entry_price - riskCall.stop_price) * 50
                        < config.r_per_trade * 100
        IN  /\ killed => riskCall.reason = "KILL_SWITCH active"
            /\ (~killed /\ loss) => riskCall.reason = "DAILY_LOSS hit"
            /\ (~killed /\ ~loss /\ trades) => riskCall.reason = "MAX_TRADES reached"
            /\ (~killed /\ ~loss /\ ~trades /\ size) => riskCall.reason = "MAX_SIZE exceeded"
            /\ (~killed /\ ~loss /\ ~trades /\ ~size /\ poor) => riskCall.reason = "Poor R:R"
            /\ (~killed /\ ~loss /\ ~trades /\ ~size /\ ~poor) => riskCall.reason = "OK"
            /\ riskCall.allowed <=> riskCall.reason = "OK"

\* Trade count, size and risk-reward all fail at once: MAX_TRADES is reported.
C4_Witness ==
    /\ riskCall.op = "check_entry"
    /\ ~riskCall.pre.kill_switch_triggered
    /\ riskCall.pre.trades_today >= config.max_trades_per_day
    /\ riskCall.size > config.max_position_size
    /\ PoorRR(config, riskCall.entry_price, riskCall.stop_price)
    /\ riskCall.reason = "MAX_TRADES reached"

C7_CancelsExactlyWorking ==
    flat.pc = "done" =>
        FlattenCancelled =
            {flat.listed[i].orderId :
                i \in {j \in 1..Len(flat.listed) : flat.listed[j].ordStatus = "Working"}}

OrderRank(status) ==
    IF status = "Pending" THEN 0 ELSE IF status = "Working" THEN 1 ELSE 2

\* C8: a tracked order stays tracked and its status only moves forward along
\* Pending -> Working -> {Filled, Cancelled, Rejected}: never out of a
\* terminal status, never back from Working to Pending.
C8_StatusForwardOnly ==
    [][\A id \in DOMAIN pending_orders :
          /\ id \in DOMAIN pending_orders'
          /\ LET old == pending_orders[id].status
                 new == pending_orders'[id].status
             IN  \/ new = old
                 \/ /\ OrderRank(new) > OrderRank(old)
                    /\ new \in {"Working", "Filled", "Cancelled", "Rejected"}]_vars

\* A tracked order has been cancelled while another is still working.
C8_Witness ==
    \E a, b \in DOMAIN pending_orders :
        /\ pending_orders[a].status = "Cancelled"
        /\ pending_orders[b].status = "Working"

\* C9: in _live_trade a failed entry ends the call with no leg requested and
\* no trade counted; after a successful entry the requests are the Market
\* entry, then the opposite-side Stop at the stop price, then the
\* opposite-side Limit at the target.
C9_EntryFailureAborts ==
    live.pc # "idle" =>
        LET signal == live.signal[1]
            n == Len(live.requests)
        IN  /\ n = Len(live.results)
            /\ (n >= 1 /\ live.results[1] = <<>>) =>
                /\ live.pc = "done"
                /\ n = 1
                /\ ~live.recorded
                /\ risk.trades_today = live.trades_before
                /\ trades_today = live.trades_before
            /\ (live.pc = "done" /\ live.results[1] # <<>>) => n = 3
            /\ n >= 1 =>
                /\ live.requests[1].orderType = "Market"
                /\ live.requests[1].action = signal.direction
            /\ n >= 2 =>
                /\ live.requests[2].orderType = "Stop"
                /\ live.requests[2].action = Opposite(signal.direction)
                /\ live.requests[2].stopPrice = signal.stop_price
            /\ n >= 3 =>
                /\ live.requests[3].orderType = "Limit"
                /\ live.requests[3].action = Opposite(signal.direction)
                /\ live.requests[3].price = live.target

\* The broker has refused the entry and the call has ended there.
C9_Witness ==
    /\ live.pc = "done"
    /\ live.results = << <<>> >>
    /\ Len(live.requests) = 1
    /\ brokerOrders = <<>>

\* What a _live_trade call leaves for its caller and the risk manager: what
\* it reported, and whether it counted a trade.
LiveOutcome == [reported |-> live.reported, recorded |-> live.recorded]

FullBracketOutcome ==
    [reported |-> <<"LIVE ENTRY FILLED", "Stop placed", "Target placed">>,
     recorded |-> TRUE]

\* C10: when the entry was placed and a protective leg failed to place, the
\* call ends in an outcome that differs from that of a fully placed bracket.
C10_LegFailureDistinguishable ==
    (/\ live.pc = "done"
     /\ Len(live.results) = 3
     /\ live.results[1] # <<>>
     /\ live.results[2] = <<>> \/ live.results[3] = <<>>)
    => LiveOutcome # FullBracketOutcome

\* C11: reset_day clears daily_pnl, trades_today and the kill switch only
\* when the current date is past daily_start, and otherwise changes nothing;
\* it leaves daily_start at the current date, so a second reset_day within
\* the same calendar day leaves the state unchanged: one reset per day
\* transition.
C11_ResetOncePerDay ==
    [][(riskCall'.op = "reset_day" /\ riskCall'.pre = risk /\ today' = today) =>
          /\ today > risk.daily_start => risk' = RiskManagerInit(today)
          /\ ~(today > risk.daily_start) => risk' = risk
          /\ risk'.daily_start = today]_vars

\* A reset_day on a day that was already reset has left a loss made since
\* that reset in place.
C11_Witness ==
    /\ riskCall.op = "reset_day"
    /\ today > 0
    /\ riskCall.pre.daily_start = today
    /\ riskCall.pre.daily_pnl < 0
    /\ riskCall.pre.trades_today > 0
    /\ risk = riskCall.pre

\* C12: update_pnl adds the realized amount to daily_pnl and sets the kill
\* switch in the same call whenever the new total is <= max_daily_loss; from
\* then on, until a reset_day of a later date, the switch stays set and every
\* check_entry is rejected with the kill-switch reason.
C12_LossTripsKillSwitch ==
    [][/\ (riskCall'.op = "update_pnl" /\ riskCall' # riskCall) =>
              /\ risk'.daily_pnl = risk.daily_pnl + riskCall'.realized_pnl
              /\ risk'.daily_pnl <= config.max_daily_loss => risk'.kill_switch_triggered
       /\ (risk.kill_switch_triggered /\ riskCall'.op # "reset_day")
              => risk'.kill_switch_triggered
       /\ (riskCall'.op = "check_entry" /\ riskCall'.pre.kill_switch_triggered) =>
              /\ ~riskCall'.allowed
              /\ riskCall'.reason = "KILL_SWITCH active"]_vars

\* max_daily_loss = -300: two update_pnl(-150) brought daily_pnl to -300 and a
\* check_entry made after them, otherwise acceptable, found the switch set.
C12_Witness ==
    /\ config = ExampleConfig
    /\ riskCall.op = "check_entry"
    /\ riskCall.pre.daily_pnl = -300
    /\ riskCall.pre.kill_switch_triggered
    /\ riskCall.pre.trades_today = 0
    /\ riskCall.size = 1
    /\ ~PoorRR(config, riskCall.entry_price, riskCall.stop_price)
    /\ ~riskCall.allowed
    /\ riskCall.reason = "KILL_SWITCH active"

\* C13: while the bot runs, every interval boundary at which a candle is open
\* hands exactly that candle to on_candle_close, once, and this goes on for
\* later intervals whatever earlier evaluations and executions did.
C13_OneEvaluationPerClose ==
    [][(clock' = clock + 1 /\ current_candle # NoCandle) =>
          candles' = Append(candles, current_candle[1])]_vars

\* C14: an interval that elapses with no candle open emits nothing and
\* changes nothing; a candle is emitted only when one is open, it is the open
\* one, and the accumulator is empty afterwards; a candle opens only on a
\* quote, as the one-quote candle of that quote.  So every emitted candle was
\* opened by a quote received since the previous seal.
C14_NoSyntheticCandle ==
    [][/\ (clock' = clock + 1 /\ current_candle = NoCandle) =>
              UNCHANGED <<riskVars, stratVars, orderVars, live, paper_mode, current_candle,
                          last_signal, trades_today, paper_log, quotes, positions, cbTask,
                          lastExec, authVars, streamVars, stopVars>>
       /\ candles' # candles =>
              /\ current_candle # NoCandle
              /\ candles' = Append(candles, current_candle[1])
              /\ current_candle' = NoCandle
       /\ (current_candle = NoCandle /\ current_candle' # NoCandle) =>
              /\ clock' = clock
              /\ Symbol \in DOMAIN quotes'
              /\ current_candle'[1] =
                     Candle(quotes'[Symbol], quotes'[Symbol], quotes'[Symbol],
                            quotes'[Symbol], 1000, clock)]_vars

\* A candle opened in the first interval was emitted at its end; the second
\* interval had no quote and its end emitted nothing.
C14_Witness ==
    /\ clock = 2
    /\ Len(candles) = 1
    /\ candles[1].timestamp = 0
    /\ candles[1].volume > 0
    /\ current_candle = NoCandle
    /\ cbTask = "sleeping"

\* C15: at most one candle is under construction; sealing takes the candle
\* and clears the accumulator in one step; no step changes or removes a
\* candle that was sealed; a quote the aggregator handles is applied to the
\* one candle under construction and to no other.
C15_SealIsAtomic ==
    [][/\ Len(current_candle') <= 1
       /\ Len(candles') >= Len(candles)
       /\ \A i \in 1..Len(candles) : candles'[i] = candles[i]
       /\ candles' # candles =>
              /\ current_candle # NoCandle
              /\ candles' = Append(candles, current_candle[1])
              /\ current_candle' = NoCandle
       /\ (quotes' # quotes \/ (current_candle' # current_candle /\ current_candle' # NoCandle)) =>
              /\ candles' = candles
              /\ current_candle' # NoCandle
              /\ current_candle'[1].close = quotes'[Symbol]
              /\ current_candle # NoCandle =>
                     current_candle'[1].timestamp = current_candle[1].timestamp]_vars

\* A candle was sealed at one price; a later quote at another price opened
\* the next candle and left the sealed one as it was.
C15_Witness ==
    /\ Len(candles) = 1
    /\ candles[1].close = 20000
    /\ candles[1].high = 20000
    /\ current_candle # NoCandle
    /\ current_candle[1].close = 20230
    /\ current_candle[1].timestamp > candles[1].timestamp

\* C16: the timestamps of the candles emitted to the strategy are strictly
\* increasing.
C16_TimestampsIncrease ==
    \A i \in 1..(Len(candles) - 1) : candles[i].timestamp < candles[i + 1].timestamp

\* Three candles were emitted, the last opened in the third interval.
C16_Witness ==
    /\ Len(candles) = 3
    /\ candles[1].timestamp = 0
    /\ candles[3].timestamp = 2

\* C17: a renewal request is sent only once the token's age has reached the
\* renewal threshold; whenever it is answered by a status other than 200 or
\* by an exception, the same renew_token call attempts authenticate exactly
\* once, and returns what that authenticate returned.
C17_RenewalFallsBack ==
    /\ renewTask.call.request # "none" => renewTask.call.age >= renew_threshold
    /\ renewTask.call.request \in {"rejected", "error", "bad_json"} =>
           /\ renewTask.call.acquires = 1
           /\ renewTask.pc = "auth_post" \/ renewTask.call.result # <<>>
           /\ renewTask.call.result = renewTask.call.acquired
    /\ renewTask.call.request = "ok" =>
           /\ renewTask.call.acquires = 0
           /\ renewTask.call.result = <<TRUE>>

\* A renewal sent at the threshold raised, and the authenticate it fell back
\* to succeeded: the call returned True after one acquisition.
C17_Witness ==
    /\ renewTask.pc = "sleeping"
    /\ renewTask.call.age = renew_threshold
    /\ renewTask.call.request = "error"
    /\ renewTask.call.acquires = 1
    /\ renewTask.call.acquired = <<TRUE>>
    /\ renewTask.call.result = <<TRUE>>
    /\ auth.token_created = <<renew_threshold>>

\* C18: get_auth_headers fails when there is no access token, and a request
\* gets headers only for a token whose age is below the expiry window,
\* also after a renewal and the re-authentication it fell back to both failed.
C18_NoStaleToken ==
    /\ lastRead.outcome = "RuntimeError" => lastRead.access_token = NoToken
    /\ lastRead.outcome = "headers" =>
           /\ lastRead.access_token # NoToken
           /\ lastRead.age < expiry_window

\* C19: whatever the interleaving of the auto_renew task with order requests,
\* a request reads an access token together with the creation time stored
\* with it, a market-data token of the same session and that session's
\* account id: never a token set of which only a part was updated.
C19_TokenSetConsistent ==
    lastRead.outcome = "headers" =>
        /\ lastRead.token_created = <<lastRead.access_token[1].at>>
        /\ lastRead.md_access_token # NoToken
        /\ lastRead.md_access_token[1].session = lastRead.access_token[1].session
        /\ lastRead.account_id = <<AccountId>>

\* A renewal was refused and the authenticate it fell back to succeeded; a
\* request made afterwards read the token set of that second session.
C19_Witness ==
    /\ renewTask.call.request = "rejected"
    /\ renewTask.call.result = <<TRUE>>
    /\ lastRead.outcome = "headers"
    /\ lastRead.access_token[1].id = 2
    /\ lastRead.md_access_token[1].id = 2
    /\ lastRead.token_created # <<0>>

\* C20: a frame the listener cannot read or route is dropped: the step that
\* handles it leaves the client connected and reaches no handler (the stored
\* quotes and positions and the candle under construction are as before);
\* the loop goes on, so that the quote a later frame brings is stored and
\* handed to the registered handler.
C20_BadFrameDropped ==
    [][/\ lastDrop' # lastDrop =>
              /\ connected'
              /\ UNCHANGED <<quotes, positions, current_candle, candles, last_signal>>
       /\ (lastDrop.kind # "none" /\ quotes' # quotes) =>
              /\ connected'
              /\ current_candle' # NoCandle
              /\ current_candle'[1].close = quotes'[Symbol]]_vars

\* Unreadable text arrived before any quote and was dropped; the quote of a
\* later frame opened the candle.
C20_Witness ==
    /\ lastDrop.kind = "bad_json"
    /\ lastDrop.quotes = <<>>
    /\ lastDrop.current_candle = NoCandle
    /\ connected
    /\ Symbol \in DOMAIN quotes
    /\ current_candle # NoCandle
    /\ current_candle[1].close = quotes[Symbol]

\* C21: a closed stream leaves the client disconnected, whether the remote
\* end closed it or disconnect() did; from then on connected stays false, no
\* frame reaches a handler (stored quotes, positions and the candle under
\* construction stay as they are) and the connection is never opened again.
C21_ClosureHaltsDispatch ==
    [][/\ ws' = "closed" => ~connected'
       /\ ws = "closed" => ws' = "closed"
       /\ ~connected =>
              /\ ~connected'
              /\ UNCHANGED <<quotes, positions, current_candle>>]_vars

\* Quotes were dispatched, a frame was dropped, then the stream was closed.
C21_Witness ==
    /\ ws = "closed"
    /\ ~connected
    /\ current_candle # NoCandle
    /\ lastDrop.kind = "unrecognized"
    /\ lastDrop.current_candle # NoCandle

\* The candle under construction after every quote of qs, in arrival order,
\* was handed to the coordinator's aggregator.
RECURSIVE DeliverAll(_, _, _)
DeliverAll(qs, cc, now) ==
    IF qs = <<>> THEN cc ELSE DeliverAll(Tail(qs), OnQuote(cc, Head(qs), now), now)

\* C22: every quote of every frame with data the listener receives is
\* delivered to the registered quote handler, the coordinator's aggregator,
\* in arrival order, none skipped: after the frame the candle under
\* construction has taken every quote of it and the last one is the stored
\* quote.
C22_EveryQuoteDelivered ==
    [][\A frame \in Frames :
          (Listener(frame) /\ frame.quotes # <<>>) =>
              /\ current_candle' = DeliverAll(frame.quotes, current_candle, clock)
              /\ quotes'[Symbol] = frame.quotes[Len(frame.quotes)].price]_vars


\* The tracked statuses of the orders a stop() call had on its list.
ListedStatuses(call, po) ==
    [k \in {call.listed[n].orderId : n \in 1..Len(call.listed)} \cap DOMAIN po |-> po[k].status]

\* C23: stop() is idempotent.  Once a stop() call whose list request and
\* cancel requests were all acknowledged has completed, every step of
\* another stop() call, started before or after, leaves running, the
\* connection state and the tracked statuses of the listed orders as they
\* are, and no stop() call is left waiting or ended before it completes.
C23_StopIdempotent ==
    [][\A i \in 1..MaxStops :
          (stopCalls[i].pc = "done" /\ stopCalls[i].clean /\ stopCalls' # stopCalls) =>
              /\ running' = running
              /\ connected' = connected
              /\ ws' = ws
              /\ ListedStatuses(stopCalls[i], pending_orders')
                     = ListedStatuses(stopCalls[i], pending_orders)
              /\ \A j \in 1..MaxStops : stopCalls'[j].pc \notin {"blocked", "cancelled"}]_vars

\* C24: a stop() call, once made, goes through its whole list and
\* disconnects: it is never left waiting for the answer to one cancel
\* request, and never ended before it has completed.
C24_StopCompletes ==
    \A i \in 1..MaxStops : stopCalls[i].pc \notin {"blocked", "cancelled"}


C25_PaperAppendsOneRecord ==
    [][/\ \A signal \in ExecSignals :
             (/\ paper_mode
              /\ Execute(signal)
              /\ CheckEntry(risk, config, signal.direction, 1,
                            signal.entry_price, signal.stop_price).allowed) =>
                 /\ Len(paper_log') = Len(paper_log) + 1
                 /\ paper_log'[Len(paper_log')].mode = "PAPER"
                 /\ paper_log'[Len(paper_log')].direction = signal.direction
                 /\ paper_log'[Len(paper_log')].entry = signal.entry_price
                 /\ risk'.trades_today = risk.trades_today + 1
                 /\ UNCHANGED <<pending_orders, brokerOrders, live>>
       /\ Len(paper_log') >= Len(paper_log)
       /\ SubSeq(paper_log', 1, Len(paper_log)) = paper_log]_vars

\* Two paper trades, a long and a short, have been logged one after the other.
C25_Witness ==
    /\ paper_mode
    /\ lastExec.outcome = "paper"
    /\ Len(paper_log) = 2
    /\ paper_log[1].direction = "Buy"
    /\ paper_log[2].direction = "Sell"
    /\ risk.trades_today = 2
    /\ brokerOrders = <<>>


C27_RejectionHasNoEffect ==
    [][/\ (lastExec' # lastExec /\ lastExec'.qty # 0) =>
              /\ lastExec'.outcome = "guardrail"
              /\ UNCHANGED <<risk, riskCall, pending_orders, brokerOrders, paper_log, cbTask>>
       /\ (lastExec' # lastExec /\ lastExec'.outcome = "risk_block") =>
              /\ UNCHANGED <<pending_orders, brokerOrders, paper_log, trades_today, cbTask>>
              /\ risk'.trades_today = risk.trades_today]_vars


\* C29: the trade count is bounded and counts executed trades.  The risk
\* manager's trades_today never exceeds max_trades_per_day, and an execution
\* raises it by one exactly when its own check_entry approved and the trade
\* was executed (a paper record written, or the entry order placed); a
\* rejected execution, or one whose entry failed, leaves it as it is.
C29_TradeCountBounded ==
    [][/\ risk'.trades_today <= config.max_trades_per_day
       /\ \A signal \in ExecSignals :
              Execute(signal) =>
                  LET v == CheckEntry(risk, config, signal.direction, 1,
                                      signal.entry_price, signal.stop_price)
                      executed == /\ v.allowed
                                  /\ \/ paper_mode
                                     \/ live'.results[1] # <<>>
                  IN  /\ riskCall'.pre = risk
                      /\ riskCall'.allowed = v.allowed
                      /\ risk'.trades_today =
                             risk.trades_today + IF executed THEN 1 ELSE 0]_vars

\* The tenth trade of the day has been counted and the next execution was
\* rejected for it.
C29_Witness ==
    /\ risk.trades_today = config.max_trades_per_day
    /\ Len(paper_log) = config.max_trades_per_day
    /\ riskCall.op = "check_entry"
    /\ ~riskCall.allowed
    /\ riskCall.reason = "MAX_TRADES reached"
    /\ lastExec.outcome = "risk_block"


\* A candle whose open and close lie between its low and its high.
OhlcOrdered(c) ==
    /\ c.low <= c.open /\ c.open <= c.high
    /\ c.low <= c.close /\ c.close <= c.high

\* A signal whose stop and target lie on opposite sides of its entry, the
\* stop below it for Buy and above it for Sell.
BracketOriented(s) ==
    LET target == CalculateTarget(s.entry_price, s.stop_price, s.direction)
    IN  IF s.direction = "Buy"
        THEN s.stop_price <= s.entry_price /\ s.entry_price <= target
        ELSE target <= s.entry_price /\ s.entry_price <= s.stop_price

\* C30: every candle the aggregator holds or has handed to the strategy has
\* its open and close between its low and high, and every signal the
\* strategy derived from them has its stop and target on the right sides of
\* its entry.
C30_CandlesAndBracketsOrdered ==
    /\ current_candle # NoCandle => OhlcOrdered(current_candle[1])
    /\ \A k \in 1..Len(candles) : OhlcOrdered(candles[k])
    /\ \A s \in {last_signal, current_signal, signalOut} :
           s # NoSignal =>
               /\ OhlcOrdered(s[1].breakout_candle)
               /\ BracketOriented(s[1])

\* A Sell signal from a candle that traded down from its high: the stop is
\* above the entry.
C30_Witness ==
    /\ last_signal # NoSignal
    /\ last_signal[1].direction = "Sell"
    /\ last_signal[1].stop_price > last_signal[1].entry_price
    /\ last_signal[1].breakout_candle.high > last_signal[1].breakout_candle.low
    /\ Len(candles) = 2

====
